---- MODULE Spec2Model ----
(***************************************************************************)
(* State-machine model of vuln-rate-limiting-tester (src/main.py):         *)
(* main() validates the URL, builds a RateLimitTester, runs the pacing     *)
(* loop test_rate_limiting() and hands its list to report_results().       *)
(*                                                                         *)
(* Time is counted in ticks, TicksPerSecond ticks to the second, chosen    *)
(* so that every (i + 1) / requests_per_second of the model is a whole     *)
(* number of ticks.  The clock advances only while a request is in flight  *)
(* (its latency) and while time.sleep() runs (exactly the time asked for). *)
(***************************************************************************)
EXTENDS Integers, Sequences, FiniteSets, TLC

\* ---------------------------------------------------------------- bounds
\* largest -m / --max-requests tried, and longest list handed to the reporter
MaxRequests == 5
\* largest -r / --requests-per-second tried
MaxRate == 2
\* longest request latency, in seconds
MaxLatency == 1

\* ------------------------------------------------------------- arithmetic
RECURSIVE GCD(_, _)
GCD(a, b) == IF b = 0 THEN a ELSE GCD(b, a % b)

RECURSIVE LCMUpTo(_)
LCMUpTo(n) == IF n <= 1 THEN 1 ELSE (LCMUpTo(n - 1) * n) \div GCD(LCMUpTo(n - 1), n)

TicksPerSecond == LCMUpTo(MaxRate)

Latencies == { k * TicksPerSecond : k \in 0..MaxLatency }

\* ------------------------------------------------------------ Python None
None == [kind |-> "None"]
NoHeader == "<None>"

\* ----------------------------------------------------- command-line input
UrlHttp == <<"h", "t", "t", "p", ":", "/", "/", "a">>
UrlHttps == <<"h", "t", "t", "p", "s", ":", "/", "/", "a">>
UrlFtp == <<"f", "t", "p", ":", "/", "/", "a">>
UrlUpper == <<"H", "T", "T", "P", ":", "/", "/", "a">>
UrlNoSlashes == <<"h", "t", "t", "p", ":", "a">>
UrlBare == <<"a">>

Urls == {UrlHttp, UrlHttps, UrlFtp, UrlUpper, UrlNoSlashes, UrlBare}

\* argparse: url is any string, -r and -m are any int (type=int, no range check)
\* every combination is tried with all urls but the https one, which is tried
\* with the shortest runs only
Args ==
  [ url : Urls \ {UrlHttps},
    requests_per_second : (0 - 1)..MaxRate,
    max_requests : (0 - 1)..MaxRequests ]
  \cup
  [ url : {UrlHttps},
    requests_per_second : (0 - 1)..MaxRate,
    max_requests : (0 - 1)..2 ]

\* str.startswith(prefix)
StartsWith(s, prefix) ==
  /\ Len(s) >= Len(prefix)
  /\ SubSeq(s, 1, Len(prefix)) = prefix

\* mutant: only the scheme name is compared, not the "://"
UrlAccepted_SchemeOnly(url) ==
  StartsWith(url, <<"h", "t", "t", "p">>)

\* main(): args.url.startswith(("http://", "https://"))
UrlAccepted(url) ==
  \/ StartsWith(url, <<"h", "t", "t", "p", ":", "/", "/">>)
  \/ StartsWith(url, <<"h", "t", "t", "p", "s", ":", "/", "/">>)

\* --------------------------------------------- what session.get can yield
Response(status, headers) ==
  [kind |-> "Response", status_code |-> status, headers |-> headers]

Headers200 == [h \in {"Content-Length", "X-RateLimit-Limit", "X-RateLimit-Remaining"} |->
                 CASE h = "Content-Length" -> "12"
                   [] h = "X-RateLimit-Limit" -> "100"
                   [] OTHER -> "99"]
Headers304 == << >>
Headers429 == [h \in {"Retry-After", "X-RateLimit-Remaining"} |->
                 IF h = "Retry-After" THEN "30" ELSE "0"]
Headers503 == [h \in {"Retry-After"} |-> "120"]

Responses ==
  { Response(200, Headers200), Response(304, Headers304),
    Response(429, Headers429), Response(503, Headers503) }

\* requests.exceptions.Timeout and .ConnectionError, both RequestException
Timeout == [kind |-> "Timeout"]
ConnectionError == [kind |-> "ConnectionError"]

GetOutcomes == Responses \cup {Timeout, ConnectionError}

\* mutant: only server errors raise
RaisesHTTPError_Only5xx(status) == 500 <= status /\ status < 600

\* mutant: no status raises
RaisesHTTPError_Never(status) == FALSE

\* response.raise_for_status(): "Raise HTTPError for bad responses (4xx or 5xx)"
RaisesHTTPError(status) == 400 <= status /\ status < 600

\* truth value of a value of send_request(): None is false, a Response is
\* true when raise_for_status() would not raise
Truthy(response) ==
  /\ response.kind = "Response"
  /\ ~RaisesHTTPError(response.status_code)

\* send_request(): the response, or None after any RequestException
SendRequest(outcome) ==
  IF outcome.kind = "Response" /\ ~RaisesHTTPError(outcome.status_code)
  THEN outcome
  ELSE None

\* headers.get(name)
HeaderGet(headers, name) ==
  IF name \in DOMAIN headers THEN headers[name] ELSE NoHeader

\* analyze_response(): the dictionary built from status and headers
RateLimitInfo(response) ==
  [ kind |-> "dict",
    status_code |-> response.status_code,
    x_ratelimit_limit |-> HeaderGet(response.headers, "X-RateLimit-Limit"),
    x_ratelimit_remaining |-> HeaderGet(response.headers, "X-RateLimit-Remaining"),
    x_ratelimit_reset |-> HeaderGet(response.headers, "X-RateLimit-Reset"),
    retry_after |-> HeaderGet(response.headers, "Retry-After"),
    content_length |-> HeaderGet(response.headers, "Content-Length") ]

\* analyze_response(): None for a falsy response
AnalyzeResponse(response) ==
  IF ~Truthy(response) THEN None ELSE RateLimitInfo(response)

\* ------------------------------------------------------------ pacing loop
\* mutant: a failed request leaves no entry
LoopAppend_SkipFailed(list, response) ==
  IF Truthy(response)
  THEN Append(list, AnalyzeResponse(response))
  ELSE list

\* test_rate_limiting(): the if/else that appends one entry per attempt
LoopAppend(list, response) ==
  IF Truthy(response)
  THEN Append(list, AnalyzeResponse(response))
  ELSE Append(list, None)

\* mutant: the schedule of attempt idx is idx / requests_per_second
TargetElapsed_OffByOne(idx, rps) ==
  IF rps > 0
  THEN (idx * TicksPerSecond) \div rps
  ELSE 0 - ((idx * TicksPerSecond) \div (0 - rps))

\* (i + 1) / self.requests_per_second, in ticks; rps # 0
TargetElapsed(idx, rps) ==
  IF rps > 0
  THEN ((idx + 1) * TicksPerSecond) \div rps
  ELSE 0 - (((idx + 1) * TicksPerSecond) \div (0 - rps))

\* logging calls of one attempt: send_request's error, the loop's warning,
\* and the "Sent {i+1} requests" progress line
LogAttempt(l, idx, response) ==
  IF Truthy(response)
  THEN [l EXCEPT !.progress = IF idx % 10 = 0 THEN @ + 1 ELSE @]
  ELSE [l EXCEPT !.error = @ + 1, !.warning = @ + 1]

\* class of a session.get outcome, for the tally of what the server did
OutcomeClass(outcome) ==
  CASE outcome.kind = "Timeout" -> "timeout"
    [] outcome.kind = "ConnectionError" -> "connection"
    [] outcome.kind = "Response" /\ outcome.status_code \in {429, 503} -> "throttled"
    [] outcome.kind = "Response" /\ outcome.status_code \in 200..299 -> "2xx"
    [] OTHER -> "other"

\* ---------------------------------------------------------------- reporter
\* mutant: only 429 counts as blocked
IsBlocked_Only429(result) == result.status_code = 429

\* result['status_code'] in [429, 503]
IsBlocked(result) == result.status_code \in {429, 503}

\* mutant: a failed request is skipped without being counted
ReportStep_NoErrorCount(acc, result) ==
  IF result = None
  THEN acc
  ELSE IF IsBlocked(result)
       THEN [acc EXCEPT !.blocked_count = @ + 1]
       ELSE acc

\* report_results(): body of the for loop over the results
ReportStep(acc, result) ==
  IF result = None
  THEN [acc EXCEPT !.error_count = @ + 1]
  ELSE IF IsBlocked(result)
       THEN [acc EXCEPT !.blocked_count = @ + 1]
       ELSE acc

RECURSIVE ReportLoop(_, _)
ReportLoop(acc, list) ==
  IF list = << >>
  THEN acc
  ELSE ReportLoop(ReportStep(acc, Head(list)), Tail(list))

NoOutput == [kind |-> "None"]

\* what report_results() prints: nothing for an empty list
ReportOutput(list) ==
  IF list = << >>
  THEN NoOutput
  ELSE LET counts == ReportLoop([blocked_count |-> 0, error_count |-> 0], list)
       IN [ kind |-> "report",
            detail |-> [k \in 1..Len(list) |->
                          IF list[k] = None THEN <<k, "Request Failed.">> ELSE <<k, list[k]>>],
            total |-> Len(list),
            blocked |-> counts.blocked_count,
            failed |-> counts.error_count,
            verdict |-> IF counts.blocked_count > 0
                        THEN "Possible Rate Limiting Detected."
                        ELSE "No Rate Limiting Appears to be in Effect." ]

\* ------------------------------------------------------------------- state
VARIABLES
  args,          \* parsed command line
  pc,            \* position of main()
  tester,        \* the RateLimitTester, None before it is built
  responses,     \* test_rate_limiting's list, then main's
  i,             \* attempts completed = index of the next attempt
  start_time,    \* time.time() at the start of the run
  now,           \* the clock
  elapsed_time,  \* last value of the local elapsed_time
  sleep_time,    \* last value of the local sleep_time
  sent,          \* calls of send_request so far
  log,           \* count of log records by kind
  last_get,      \* outcome of the latest session.get
  seen,          \* tally of session.get outcomes by class
  instant,       \* every request so far had zero latency
  exc,           \* exception in flight in main's try
  exited,        \* the process has ended
  exit_status,   \* its status
  stdout         \* what report_results printed

vars ==
  <<args, pc, tester, responses, i, start_time, now, elapsed_time, sleep_time,
    sent, log, last_get, seen, instant, exc, exited, exit_status, stdout>>

OutcomeClasses == {"timeout", "connection", "throttled", "2xx", "other"}

InitCommon ==
  /\ tester = None
  /\ i = 0
  /\ start_time = 0
  /\ now \in {3 * TicksPerSecond}
  /\ elapsed_time = 0
  /\ sleep_time = 0
  /\ sent = 0
  /\ log = [progress |-> 0, warning |-> 0, error |-> 0, empty_report |-> 0]
  /\ last_get = None
  /\ seen = [c \in OutcomeClasses |-> 0]
  /\ instant = TRUE
  /\ exc = "none"
  /\ exited = FALSE
  /\ exit_status = 0
  /\ stdout = NoOutput

\* main() entered with the parsed arguments
Init ==
  /\ args \in Args
  /\ pc = "validate"
  /\ responses = << >>
  /\ InitCommon

\* main(): the URL check and the construction of the tester
MainValidate ==
  /\ pc = "validate"
  /\ IF UrlAccepted(args.url)
     THEN /\ tester' = [ kind |-> "RateLimitTester",
                         url |-> args.url,
                         requests_per_second |-> args.requests_per_second,
                         max_requests |-> args.max_requests ]
          /\ pc' = "start"
          /\ exc' = exc
     ELSE /\ exc' = "ValueError"
          /\ pc' = "except"
          /\ tester' = tester
  /\ UNCHANGED <<args, responses, i, start_time, now, elapsed_time, sleep_time,
                 sent, log, last_get, seen, instant, exited, exit_status, stdout>>

\* test_rate_limiting(): responses = [], start_time = time.time()
TestStart ==
  /\ pc = "start"
  /\ responses' = << >>
  /\ start_time' = now
  /\ i' = 0
  /\ pc' = "loop"
  /\ UNCHANGED <<args, tester, now, elapsed_time, sleep_time, sent, log, last_get,
                 seen, instant, exc, exited, exit_status, stdout>>

\* one pass of the for loop: send, append, pace
LoopIteration ==
  /\ pc = "loop"
  /\ i < tester.max_requests
  /\ \E outcome \in GetOutcomes, latency \in Latencies :
       LET response == SendRequest(outcome)
           after == now + latency
           elapsed == after - start_time
           rps == tester.requests_per_second
       IN /\ last_get' = outcome
          /\ seen' = [seen EXCEPT ![OutcomeClass(outcome)] = @ + 1]
          /\ instant' = (instant /\ latency = 0)
          /\ sent' = sent + 1
          /\ responses' = LoopAppend(responses, response)
          /\ log' = LogAttempt(log, i, response)
          /\ elapsed_time' = elapsed
          /\ IF rps = 0
             THEN /\ exc' = "ZeroDivisionError"
                  /\ pc' = "except"
                  /\ now' = after
                  /\ UNCHANGED <<i, sleep_time>>
             ELSE /\ sleep_time' = TargetElapsed(i, rps) - elapsed
                  /\ now' = IF sleep_time' > 0 THEN after + sleep_time' ELSE after
                  /\ i' = i + 1
                  /\ UNCHANGED <<exc, pc>>
  /\ UNCHANGED <<args, tester, start_time, exited, exit_status, stdout>>

\* the range is exhausted: test_rate_limiting returns its list to main
LoopExit ==
  /\ pc = "loop"
  /\ i >= tester.max_requests
  /\ pc' = "report"
  /\ UNCHANGED <<args, tester, responses, i, start_time, now, elapsed_time, sleep_time,
                 sent, log, last_get, seen, instant, exc, exited, exit_status, stdout>>

\* report_results(responses)
ReportResults ==
  /\ pc = "report"
  /\ stdout' = ReportOutput(responses)
  /\ log' = IF responses = << >> THEN [log EXCEPT !.empty_report = @ + 1] ELSE log
  /\ pc' = "reported"
  /\ UNCHANGED <<args, tester, responses, i, start_time, now, elapsed_time, sleep_time,
                 sent, last_get, seen, instant, exc, exited, exit_status>>

\* main() falls off its end: status 0
MainReturn ==
  /\ pc = "reported"
  /\ exited' = TRUE
  /\ exit_status' = 0
  /\ pc' = "exited"
  /\ UNCHANGED <<args, tester, responses, i, start_time, now, elapsed_time, sleep_time,
                 sent, log, last_get, seen, instant, exc, stdout>>

\* except ValueError / except Exception: log and sys.exit(1)
MainExcept ==
  /\ pc = "except"
  /\ exc \in {"ValueError", "ZeroDivisionError"}
  /\ exited' = TRUE
  /\ exit_status' = 1
  /\ pc' = "exited"
  /\ log' = [log EXCEPT !.error = @ + 1]
  /\ UNCHANGED <<args, tester, responses, i, start_time, now, elapsed_time, sleep_time,
                 sent, last_get, seen, instant, exc, stdout>>

Next ==
  \/ MainValidate
  \/ TestStart
  \/ LoopIteration
  \/ LoopExit
  \/ ReportResults
  \/ MainReturn
  \/ MainExcept

Spec == Init /\ [][Next]_vars

\* ------------------------------------------- report_results on any list
\* the entries a list can hold: None, or the dictionary of any response
Results == { None } \cup { RateLimitInfo(r) : r \in Responses }

RECURSIVE ListsUpTo(_)
ListsUpTo(n) ==
  IF n = 0
  THEN { << >> }
  ELSE LET shorter == ListsUpTo(n - 1)
       IN shorter \cup { Append(l, r) : l \in { s \in shorter : Len(s) = n - 1 }, r \in Results }

InitReport ==
  /\ args = [url |-> UrlHttp, requests_per_second |-> 1, max_requests |-> 0]
  /\ pc = "report"
  /\ responses \in ListsUpTo(MaxRequests)
  /\ InitCommon

NextReport == ReportResults

SpecReport == InitReport /\ [][NextReport]_vars

\* ------------------------------------------------------------- properties
Constructed == tester.kind = "RateLimitTester"

\* test_rate_limiting has returned its list
Completed == pc \in {"report", "reported"} \/ (pc = "exited" /\ exc = "none")

Absent(list) == { k \in 1..Len(list) : list[k] = None }
NonAbsent(list) == { k \in 1..Len(list) : list[k] # None }

VerdictDetected == "Possible Rate Limiting Detected."
VerdictNone == "No Rate Limiting Appears to be in Effect."

\* C1: with positive max_requests and requests_per_second, the list grows by
\* exactly one entry per attempt (its length is the number of attempts made at
\* every point of the loop) and has max_requests entries when the loop is over.
C1_OneEntryPerAttempt ==
  (Constructed /\ tester.max_requests > 0 /\ tester.requests_per_second > 0) =>
    /\ Len(responses) = sent
    /\ Len(responses) = i
    /\ i <= tester.max_requests
    /\ Completed => Len(responses) = tester.max_requests

C1_Witness ==
  /\ pc = "report"
  /\ tester.requests_per_second > 0
  /\ tester.max_requests >= 3
  /\ Len(responses) = tester.max_requests
  /\ Absent(responses) # {}
  /\ NonAbsent(responses) # {}

\* the failures the code knows: a RequestException or a 4xx/5xx status
FailedGet(outcome) ==
  \/ outcome.kind \in {"Timeout", "ConnectionError"}
  \/ outcome.kind = "Response" /\ outcome.status_code \in 400..599

\* C2 as stated: a timeout, a connection error or any response whose status is
\* not 2xx (304 included) leaves an absent entry.
C2_Original ==
  (sent > 0 /\ (\/ last_get.kind \in {"Timeout", "ConnectionError"}
                \/ last_get.kind = "Response" /\ last_get.status_code \notin 200..299)) =>
    responses[Len(responses)] = None

\* C2 amended: the attempt leaves an absent entry exactly when it ended in a
\* timeout, a connection error or a 4xx/5xx status; every other response (304
\* included) leaves a record.  A failed attempt raises nothing: the loop moves
\* on to the next index, and a run is cut short only by the division by a
\* requests_per_second of 0, whatever the outcome was.
C2_FailureRecordedAbsent ==
  sent > 0 =>
    /\ Len(responses) = sent
    /\ FailedGet(last_get) <=> (responses[Len(responses)] = None)
    /\ ~FailedGet(last_get) =>
         responses[Len(responses)].status_code = last_get.status_code
    /\ tester.requests_per_second # 0 => (exc = "none" /\ i = sent)
    /\ tester.requests_per_second = 0 => exc = "ZeroDivisionError"

C2_Witness ==
  /\ pc = "loop"
  /\ i = 2
  /\ i < tester.max_requests
  /\ responses[1] = None
  /\ last_get.kind = "Response"
  /\ last_get.status_code = 503
  /\ responses[2] = None

\* the entries report_results must count as blocked
BlockedEntries(list) ==
  { k \in 1..Len(list) : list[k] # None /\ list[k].status_code \in {429, 503} }

\* C3 as stated: for every list, the blocked count is printed and is the number
\* of records with status 429 or 503, and a verdict is printed accordingly.
C3_Original ==
  pc = "reported" =>
    /\ stdout.kind = "report"
    /\ stdout.blocked = Cardinality(BlockedEntries(responses))
    /\ stdout.verdict = IF stdout.blocked > 0 THEN VerdictDetected ELSE VerdictNone

\* C3 amended: for every non-empty list the blocked count is the number of
\* records with status 429 or 503 and the verdict is "detected" exactly when it
\* is positive; for the empty list nothing is printed, only a warning logged.
C3_BlockedCountAndVerdict ==
  pc = "reported" =>
    IF responses = << >>
    THEN stdout = NoOutput /\ log.empty_report = 1
    ELSE /\ stdout.kind = "report"
         /\ stdout.blocked = Cardinality(BlockedEntries(responses))
         /\ stdout.verdict = IF stdout.blocked > 0 THEN VerdictDetected ELSE VerdictNone
         /\ (stdout.verdict = VerdictDetected) <=> (BlockedEntries(responses) # {})

C3_Witness ==
  /\ pc = "reported"
  /\ Len(responses) >= 4
  /\ \E a, b, c, d \in 1..Len(responses) :
       /\ responses[a] = None
       /\ responses[b] # None /\ responses[b].status_code = 429
       /\ responses[c] # None /\ responses[c].status_code = 503
       /\ responses[d] # None /\ responses[d].status_code = 200
  /\ stdout.kind = "report"
  /\ stdout.blocked >= 2
  /\ stdout.verdict = VerdictDetected

\* C4: a requests_per_second <= 0 is rejected before any request is sent and
\* the process ends with a non-zero status.
C4_RejectedBeforeAnyRequest ==
  args.requests_per_second <= 0 =>
    /\ sent = 0
    /\ exited => exit_status # 0

RejectedUrls == {UrlFtp, UrlUpper, UrlNoSlashes, UrlBare}

\* C5: a url without the http:// or https:// prefix ends the process with
\* status 1 and no request is sent; with the prefix, a run and report that end
\* without an error do not end with status 1.
C5_UrlValidation ==
  /\ args.url \in RejectedUrls =>
       /\ sent = 0
       /\ ~Constructed
       /\ pc \in {"validate", "except", "exited"}
       /\ exited => exit_status = 1
  /\ (args.url \notin RejectedUrls /\ pc # "validate") => Constructed
  /\ (args.url \notin RejectedUrls /\ exited /\ exc = "none") =>
       (exit_status = 0 /\ sent = Len(responses))

C5_Witness ==
  /\ args.url = UrlNoSlashes
  /\ args.max_requests > 0
  /\ exited
  /\ exit_status = 1
  /\ sent = 0

\* C6: the loop makes exactly max_requests calls of send_request, never more,
\* and is never left early.
C6_ExactlyMaxRequests ==
  (Constructed /\ tester.max_requests >= 0) =>
    /\ sent <= tester.max_requests
    /\ pc \in {"report", "reported", "exited"} => sent = tester.max_requests

\* C7: with requests_per_second R > 0, after attempt i - 1 the loop has slept
\* exactly when i / R exceeded the elapsed time, and for the difference, so
\* attempt i (or the return) never comes before start + i / R; a run whose
\* requests all took no time ends at exactly max_requests / R.
C7_Pacing ==
  (Constructed /\ tester.requests_per_second > 0 /\ i >= 1) =>
    LET target == (i * TicksPerSecond) \div tester.requests_per_second
    IN /\ sleep_time = target - elapsed_time
       /\ now - start_time = IF target > elapsed_time THEN target ELSE elapsed_time
       /\ now - start_time >= target
       /\ (instant /\ Completed) =>
            (now - start_time) * tester.requests_per_second
              = tester.max_requests * TicksPerSecond

C7_Witness ==
  /\ pc = "report"
  /\ tester.requests_per_second = 2
  /\ tester.max_requests >= 3
  /\ instant
  /\ sleep_time > 0
  /\ now = start_time + elapsed_time + sleep_time

C8_Case ==
  /\ pc = "reported"
  /\ tester.max_requests = 5
  /\ sent = 5
  /\ seen["timeout"] = 3
  /\ seen["connection"] = 0
  /\ seen["throttled"] = 0

\* C8 as stated: 5 requests, 3 of them timing out, give 3 records, 2 absent
\* entries and a failed count of 2.
C8_Original ==
  C8_Case =>
    /\ Cardinality(NonAbsent(responses)) = 3
    /\ Cardinality(Absent(responses)) = 2
    /\ stdout.failed = 2

\* C8 amended: 5 requests, 3 of them timing out and the other 2 answered, give
\* 2 records, 3 absent entries and a failed count of 3.
C8_ThreeTimeoutsOfFive ==
  C8_Case =>
    /\ Cardinality(NonAbsent(responses)) = 2
    /\ Cardinality(Absent(responses)) = 3
    /\ stdout.kind = "report"
    /\ stdout.total = 5
    /\ stdout.failed = 3

C8_Witness ==
  /\ C8_Case
  /\ responses[1] = None
  /\ responses[2] # None
  /\ stdout.failed = 3

\* C9: in a run of main every record of the list has a status below 400, so
\* the blocked count is 0 and no verdict other than "no rate limiting" is ever
\* printed, even when the server answers every request with 429 or 503.
C9_BlockedNeverCounted ==
  /\ \A k \in 1..Len(responses) :
       responses[k] # None => responses[k].status_code < 400
  /\ stdout.kind = "report" =>
       /\ stdout.blocked = 0
       /\ stdout.verdict = VerdictNone
       /\ stdout.failed >= seen["throttled"]

C9_Witness ==
  /\ pc = "reported"
  /\ sent >= 3
  /\ seen["throttled"] = sent
  /\ stdout.kind = "report"
  /\ stdout.verdict = VerdictNone

\* C10: a progress line is logged for every 10th attempt made (index 0, 10,
\* ...), whether it succeeded or failed.
C10_ProgressEveryTenth ==
  log.progress = Cardinality({ k \in 0..(sent - 1) : k % 10 = 0 })

====
